---- MODULE Spec2Model ----
(***************************************************************************)
(* A model of the system-call interceptor kernel module (interceptor.c):   *)
(* the bookkeeping table, the per-syscall pid lists, the two spinlocks,    *)
(* the generic interceptor, the exit_group hook and the four commands of   *)
(* my_syscall, executed by concurrently running processes.                 *)
(***************************************************************************)
EXTENDS Integers, Sequences, FiniteSets, TLC

\* ------------------------------------------------------------------------
\* Sizes.  The real table has some 300 entries; the model keeps one ordinary
\* system call (1), exit_group (2) and the extra entry table[NR_syscalls].
\* ------------------------------------------------------------------------
NR_syscalls == 3
MY_CUSTOM_SYSCALL == 0
NR_exit_group == 2

\* Number of processes (pids 1..NumProcs), and number of calls that can change
\* the table (commands that pass the argument checks, exit_group) in one behaviour.
NumProcs == 2
MaxCalls == 3
\* Number of processes that may be inside a system call at the same time.
MaxInKernel == 2

\* errno values returned negated
EPERM == 1
ENOMEM == 12
EBUSY == 16
EINVAL == 22

REQUEST_SYSCALL_INTERCEPT == "REQUEST_SYSCALL_INTERCEPT"
REQUEST_SYSCALL_RELEASE == "REQUEST_SYSCALL_RELEASE"
REQUEST_START_MONITORING == "REQUEST_START_MONITORING"
REQUEST_STOP_MONITORING == "REQUEST_STOP_MONITORING"
\* a command word that is none of the four
REQUEST_OTHER == "REQUEST_OTHER"

Pids == 1..NumProcs
\* the uids processes run under: root and one ordinary user
Uids == {0, 1000}

Cmds == {REQUEST_SYSCALL_INTERCEPT, REQUEST_SYSCALL_RELEASE,
         REQUEST_START_MONITORING, REQUEST_STOP_MONITORING, REQUEST_OTHER}
MonCmds == {REQUEST_START_MONITORING, REQUEST_STOP_MONITORING}
\* the arguments a caller may pass: every syscall number from 0 to one past
\* the accepted range, and 0 ("all pids") or the pid of a process
SyscallArgs == 0..(NR_syscalls + 1)
PidArgs == 0..NumProcs
\* The argument triples callers pass.  pid is read by the last two commands
\* only, and only once the syscall number was accepted: the other calls pass 0.
\* The command word that is none of the four comes with syscall number 1.
Inputs ==
    {in \in Cmds \X SyscallArgs \X PidArgs :
        /\ in[3] # 0 => in[1] \in MonCmds /\ in[2] \in 1..NR_syscalls
        /\ in[1] = REQUEST_OTHER => in[2] = 1}

\* ------------------------------------------------------------------------
\* State
\* ------------------------------------------------------------------------
VARIABLES
    sys_call_table,  \* slot -> handler
    table,           \* the bookkeeping array table[NR_syscalls+1]
    pidlist_lock,    \* 0 (unlocked) or the holder: a pid, or Loader
    calltable_lock,  \* 0 (unlocked) or the holder: a pid, or Loader
    lkm,             \* where the module is: in init_function, loaded, in
                     \* exit_function, unloaded
    uid,             \* per process: the uid it runs under (never changes)
    pc,              \* per process: where it is ("idle" in user mode)
    arg,             \* per process: the system call it issued and its arguments
    hasPid,          \* per process: the local hasPid
    status,          \* per process: the local status
    ret,             \* per process: value returned by the last system call
    logged,          \* per process: log_message was called in this invocation
    \* history variables, read by no action's guard
    snap,            \* per process in interceptor: the rule's value on the tables seen
    quiet,           \* per process in interceptor: no command or hook ran meanwhile
    saved,           \* per process in a command: table and slots when it took the lock
    hist,            \* per table entry: how far the latest commands on it match Scenario
    ncalls           \* table-changing system calls issued so far

locks == <<pidlist_lock, calltable_lock>>
locals == <<hasPid, status, logged>>
vars == <<sys_call_table, table, pidlist_lock, calltable_lock, uid, pc, arg,
          hasPid, status, ret, logged, snap, quiet, saved, hist, ncalls, lkm>>

\* current_uid() of process p, and the real_cred->uid of its task
UidOf(p) == uid[p]

\* ------------------------------------------------------------------------
\* Handlers: what a slot of sys_call_table or the field f can point to.
\* ------------------------------------------------------------------------
Kernel(s) == [fn |-> "sys", nr |-> s]
NullHandler == [fn |-> "NULL", nr |-> 0 - 1]
interceptor_fn == [fn |-> "interceptor", nr |-> 0 - 1]
my_syscall_fn == [fn |-> "my_syscall", nr |-> 0 - 1]
my_exit_group_fn == [fn |-> "my_exit_group", nr |-> 0 - 1]

\* the kernel's table before the module is loaded; index NR_syscalls is the
\* word that follows the table
KernelTable == [s \in 0..NR_syscalls |-> Kernel(s)]

\* an entry of the static array table[] before init_function touches it
ZeroEntry == [f |-> NullHandler, intercepted |-> 0, monitored |-> 0,
              listcount |-> 0, my_list |-> <<>>, list_init |-> FALSE]

\* ------------------------------------------------------------------------
\* List operations.  Each takes the table and returns the new table (and a
\* status).  A list whose head was never initialised cannot be walked:
\* callers test list_init first (see Oops below).
\* ------------------------------------------------------------------------
RECURSIVE IndexOf(_, _, _)
IndexOf(l, x, i) ==
    IF i > Len(l) THEN 0 ELSE IF l[i] = x THEN i ELSE IndexOf(l, x, i + 1)

RemoveAt(l, i) == SubSeq(l, 1, i - 1) \o SubSeq(l, i + 1, Len(l))

check_pid_monitored(tbl, sysc, pid) ==
    IF IndexOf(tbl[sysc].my_list, pid, 1) # 0 THEN 1 ELSE 0

\* the insertion without listcount++
add_pid_sysc_nocount(tbl, pid, sysc, ok) ==
    IF ~ok
      THEN [table |-> tbl, status |-> 0 - ENOMEM]
      ELSE [table |-> [tbl EXCEPT ![sysc].my_list = <<pid>> \o @],
            status |-> 0]

\* kmalloc succeeded (ok) or not
add_pid_sysc(tbl, pid, sysc, ok) ==
    IF ~ok
      THEN [table |-> tbl, status |-> 0 - ENOMEM]
      ELSE [table |-> [tbl EXCEPT ![sysc].my_list = <<pid>> \o @,
                                  ![sysc].listcount = @ + 1],
            status |-> 0]

\* the unlink without the reset of the mode of an emptied list
Unlink_keepmode(e, i) ==
    [e EXCEPT !.my_list = RemoveAt(@, i),
              !.listcount = @ - 1]

\* the unlink with the reset of the mode whatever the mode is
Unlink_resetany(e, i) ==
    [e EXCEPT !.my_list = RemoveAt(@, i),
              !.listcount = @ - 1,
              !.monitored = IF e.listcount - 1 = 0 THEN 0 ELSE @]

\* the entry after the node at position i was unlinked from its list
Unlink(e, i) ==
    [e EXCEPT !.my_list = RemoveAt(@, i),
              !.listcount = @ - 1,
              !.monitored = IF e.listcount - 1 = 0 /\ e.monitored = 1 THEN 0 ELSE @]

del_pid_sysc(tbl, pid, sysc) ==
    LET i == IndexOf(tbl[sysc].my_list, pid, 1) IN
    IF i = 0
      THEN [table |-> tbl, status |-> 0 - EINVAL]
      ELSE [table |-> [tbl EXCEPT ![sysc] = Unlink(@, i)], status |-> 0]

\* every node holding pid unlinked from the entry's list, one at a time
RECURSIVE PurgeEntry(_, _)
PurgeEntry(e, pid) ==
    LET i == IndexOf(e.my_list, pid, 1) IN
    IF i = 0 THEN e ELSE PurgeEntry(Unlink(e, i), pid)

del_pid_range == 1..(NR_syscalls - 1)

del_pid(tbl, pid) ==
    [s \in DOMAIN tbl |->
        IF s \in del_pid_range THEN PurgeEntry(tbl[s], pid) ELSE tbl[s]]

destroy_list(tbl, sysc) ==
    [tbl EXCEPT ![sysc].my_list = <<>>,
                ![sysc].listcount = 0,
                ![sysc].monitored = 0]

\* same owner: -EPERM or 0; both tasks exist
check_pid_from_list(pid1, pid2) ==
    IF UidOf(pid1) # UidOf(pid2) THEN 0 - EPERM ELSE 0

\* the condition under which interceptor calls log_message
LogDecision(monitored, has) ==
    \/ monitored = 2 /\ has = 0
    \/ monitored = 1 /\ has = 1

\* ------------------------------------------------------------------------
\* Module initialisation
\* ------------------------------------------------------------------------
\* the holder of a lock while insmod or rmmod runs init_function or
\* exit_function
Loader == NumProcs + 1

\* the two handlers init_function saves at lines 573 and 578
orig_custom_syscall == KernelTable[MY_CUSTOM_SYSCALL]
orig_exit_group == KernelTable[NR_exit_group]

init_sys_call_table ==
    [KernelTable EXCEPT ![MY_CUSTOM_SYSCALL] = my_syscall_fn,
                        ![NR_exit_group] = my_exit_group_fn]

init_range == 0..(NR_syscalls - 1)

init_table ==
    [s \in 0..NR_syscalls |->
        IF s \in init_range
          THEN [f |-> init_sys_call_table[s], intercepted |-> 0, monitored |-> 0,
                listcount |-> 0, my_list |-> <<>>, list_init |-> TRUE]
          ELSE ZeroEntry]


NoArg == [nr |-> 0 - 1, cmd |-> "", syscall |-> 0, pid |-> 0]
NoSaved == [table |-> <<>>, sct |-> <<>>]

\* pid_task(find_vpid(pid), PIDTYPE_PID) is non-NULL
Alive(lpc, pid) == pid \in Pids /\ lpc[pid] \notin {"dead", "oops"}

\* program points of interceptor before and at its decision
ShimPcs == {"i294", "i297", "i298", "i302", "i305"}
\* program points of interceptor at which it holds calltable_lock
ShimLocked == {"i297", "i298", "i302"}

\* calltable_lock is not held by a command or by the exit_group hook
Quiescent(ct, lpc) == ct = 0 \/ (ct \in Pids /\ lpc[ct] \in ShimLocked)

\* No command is between two writes of the table: the table is the one some
\* command found or left.  The one program point between two writes is that of
\* StartMonitoring(O, 0) after destroy_list and before monitored = 2; the pid
\* branches write the list and the mode in one step of the model.
Settled(lpc) == \A q \in Pids : lpc[q] # "s386"

\* a command that completed its critical section with status st
Event(a, st) == [cmd |-> a.cmd, pid |-> a.pid, status |-> st]

\* The history of an entry keeps the latest commands completed on it, as far as
\* they form one of two patterns: StartMonitoring(O, 0) = 0, then
\* StopMonitoring(O, p) = 0 for some p # 0; or the last two commands, when both
\* are Intercept(O) or both are Release(O).  A hook run empties every history.
IsStartAll(e) == e.cmd = REQUEST_START_MONITORING /\ e.pid = 0 /\ e.status = 0
IsStopPid(e) == e.cmd = REQUEST_STOP_MONITORING /\ e.pid # 0 /\ e.status = 0
IsSlotCmd(e) == e.cmd \in {REQUEST_SYSCALL_INTERCEPT, REQUEST_SYSCALL_RELEASE}

Record(h, e) ==
    IF IsStartAll(e) THEN <<e>>
    ELSE IF IsSlotCmd(e)
           THEN IF Len(h) > 0 /\ h[Len(h)].cmd = e.cmd
                  THEN <<h[Len(h)], e>>
                  ELSE <<e>>
    ELSE IF Len(h) = 1 /\ IsStartAll(h[1]) /\ IsStopPid(e) THEN Append(h, e)
    ELSE <<>>

\* snap after a step, from the primed variables
SnapNext ==
    [q \in Pids |->
        IF pc'[q] \in ShimPcs
          THEN IF Settled(pc')
                 THEN snap[q] \cup
                      {LogDecision(table'[arg'[q].nr].monitored,
                                   check_pid_monitored(table', arg'[q].nr, q))}
                 ELSE snap[q]
          ELSE IF pc'[q] = "i309" THEN snap[q] ELSE {}]

\* the kernel before insmod: its own handlers in every slot, the static array
\* table[] zeroed, both spinlocks unlocked
Init ==
    /\ sys_call_table = KernelTable
    /\ table = [s \in 0..NR_syscalls |-> ZeroEntry]
    /\ lkm = "n566"
    /\ pidlist_lock = 0
    /\ calltable_lock = 0
    /\ uid \in [Pids -> Uids]
    /\ pc = [p \in Pids |-> "idle"]
    /\ arg = [p \in Pids |-> NoArg]
    /\ hasPid = [p \in Pids |-> 0]
    /\ status = [p \in Pids |-> 0]
    /\ ret = [p \in Pids |-> 0]
    /\ logged = [p \in Pids |-> FALSE]
    /\ snap = [p \in Pids |-> {}]
    /\ quiet = [p \in Pids |-> FALSE]
    /\ saved = [p \in Pids |-> NoSaved]
    /\ hist = [s \in 0..NR_syscalls |-> <<>>]
    /\ ncalls = 0

\* a process in user mode issues system call nr
InKernel == {q \in Pids : pc[q] \notin {"idle", "dead", "oops"}}

\* The calls whose interleavings are explored: the commands on the ordinary
\* system call 1 for "all pids" and for the last pid, the calls that run
\* interceptor, and exit_group.  Every other call is explored from the states
\* in which no other process is inside a system call.
CoreCall(a) ==
    \/ a.nr # MY_CUSTOM_SYSCALL
    \/ a.syscall = 1 /\ a.pid \in {0, NumProcs}

\* cost is 1 for a call that can change the table (a command that passes the
\* argument checks, an exit_group) and 0 for the others
Issue(p, a, cost) ==
    /\ pc[p] = "idle"
    /\ ncalls + cost <= MaxCalls
    /\ \A q \in Pids : pc[q] # "done"
    /\ \/ InKernel = {}
       \/ /\ cost = 1 \/ a.nr # MY_CUSTOM_SYSCALL
          /\ CoreCall(a)
          /\ Cardinality(InKernel) < MaxInKernel
          /\ \A q \in InKernel : CoreCall(arg[q])
    /\ ncalls' = ncalls + cost
    /\ arg' = [arg EXCEPT ![p] = a]

\* the arguments syscall and pid of the command process p is executing
EntryArg(p) == arg[p].syscall
PidArg(p) == arg[p].pid

\* a system call returns v to user mode
Done(p, v) ==
    /\ pc' = [pc EXCEPT ![p] = "done"]
    /\ ret' = [ret EXCEPT ![p] = v]

\* ------------------------------------------------------------------------
\* my_syscall: argument checks and dispatch to the four commands
\* ------------------------------------------------------------------------
\* the check with "<" where the code has "<="
syscall_invalid_strict(syscall) == syscall < 0 \/ syscall > NR_syscalls

syscall_invalid(syscall) == syscall <= 0 \/ syscall > NR_syscalls

\* the permission test without the comparison of the owners
mon_permission_noowner(lpc, caller, pid) ==
    IF UidOf(caller) # 0 /\ pid = 0 THEN "eperm" ELSE "ok"

\* the permission test of request_start_monitoring and request_stop_monitoring:
\* "oops" when check_pid_from_list dereferences the task of a pid that exited
\* after my_syscall looked it up
mon_permission(lpc, caller, pid) ==
    IF UidOf(caller) # 0 /\ pid # 0 /\ ~Alive(lpc, pid)
      THEN "oops"
      ELSE IF UidOf(caller) # 0 /\ (pid = 0 \/ check_pid_from_list(pid, caller) # 0)
             THEN "eperm"
             ELSE "ok"

\* where my_syscall is after its argument checks and, where the command's
\* permission test reads nothing but the caller's uid and the arguments, after
\* that test too: a value to return, or the next program point
my_syscall_to(lpc, p, cmd, syscall, pid) ==
    CASE syscall_invalid(syscall) -> [ret |-> 0 - EINVAL, pc |-> "done"]
      [] cmd = REQUEST_SYSCALL_INTERCEPT ->
           IF UidOf(p) # 0 THEN [ret |-> 0 - EPERM, pc |-> "done"]
                           ELSE [ret |-> 0, pc |-> "r321"]
      [] cmd = REQUEST_SYSCALL_RELEASE ->
           IF UidOf(p) # 0 THEN [ret |-> 0 - EPERM, pc |-> "done"]
                           ELSE [ret |-> 0, pc |-> "l346"]
      [] cmd \in {REQUEST_START_MONITORING, REQUEST_STOP_MONITORING} ->
           LET start == cmd = REQUEST_START_MONITORING IN
           IF pid # 0 /\ ~Alive(lpc, pid) THEN [ret |-> 0 - EINVAL, pc |-> "done"]
           ELSE IF UidOf(p) = 0
                  THEN [ret |-> 0, pc |-> IF start THEN "s375" ELSE "t424"]
           ELSE IF pid = 0 THEN [ret |-> 0 - EPERM, pc |-> "done"]
           ELSE [ret |-> 0, pc |-> IF start THEN "s368" ELSE "t417"]
      [] OTHER -> [ret |-> 0 - EINVAL, pc |-> "done"]

my_syscall(p, cmd, syscall, pid) ==
    /\ sys_call_table[MY_CUSTOM_SYSCALL] = my_syscall_fn
    /\ Issue(p, [nr |-> MY_CUSTOM_SYSCALL, cmd |-> cmd, syscall |-> syscall, pid |-> pid],
             IF my_syscall_to(pc, p, cmd, syscall, pid).pc = "done" THEN 0 ELSE 1)
    /\ LET to == my_syscall_to(pc, p, cmd, syscall, pid) IN
         /\ pc' = [pc EXCEPT ![p] = to.pc]
         /\ ret' = [ret EXCEPT ![p] = to.ret]
    /\ UNCHANGED <<sys_call_table, table, locks, locals, quiet, saved, hist>>
    /\ UNCHANGED <<uid, lkm>>
    /\ snap' = SnapNext

\* a command returns st without having taken a lock
Reject(p, st) ==
    /\ Done(p, st)
    /\ UNCHANGED <<sys_call_table, table, locks, arg, locals, quiet, saved, hist, ncalls>>
    /\ UNCHANGED <<uid, lkm>>
    /\ snap' = SnapNext

\* the critical section entered without waiting for calltable_lock
LockCalltable_nowait(p, l) ==
    /\ calltable_lock' = p
    /\ pc' = [pc EXCEPT ![p] = l]
    /\ saved' = [saved EXCEPT ![p] = [table |-> table, sct |-> sys_call_table]]
    /\ quiet' = [q \in Pids |-> FALSE]
    /\ UNCHANGED <<sys_call_table, table, pidlist_lock, arg, locals, ret, hist, ncalls>>
    /\ UNCHANGED <<uid, lkm>>
    /\ snap' = SnapNext

\* a command or the hook takes calltable_lock and goes to program point l
LockCalltable(p, l) ==
    /\ calltable_lock = 0
    /\ calltable_lock' = p
    /\ pc' = [pc EXCEPT ![p] = l]
    /\ saved' = [saved EXCEPT ![p] = [table |-> table, sct |-> sys_call_table]]
    /\ quiet' = [q \in Pids |-> FALSE]
    /\ UNCHANGED <<sys_call_table, table, pidlist_lock, arg, locals, ret, hist, ncalls>>
    /\ UNCHANGED <<uid, lkm>>
    /\ snap' = SnapNext

\* a command releases calltable_lock and returns st
UnlockReturn(p, st) ==
    /\ calltable_lock' = 0
    /\ Done(p, st)
    /\ hist' = [hist EXCEPT ![arg[p].syscall] = Record(@, Event(arg[p], st))]
    /\ saved' = [saved EXCEPT ![p] = NoSaved]

\* the final unlock of calltable_lock and return of status
mon_return(p, here) ==
    /\ pc[p] = here
    /\ UnlockReturn(p, status[p])
    /\ status' = [status EXCEPT ![p] = 0]
    /\ UNCHANGED <<sys_call_table, table, pidlist_lock, arg, hasPid, logged,
                   quiet, ncalls>>
    /\ UNCHANGED <<uid, lkm>>
    /\ snap' = SnapNext

\* ------------------------------------------------------------------------
\* request_syscall_intercept
\* ------------------------------------------------------------------------
\* the slots of the kernel's sys_call_table; sys_call_table[NR_syscalls] is the
\* word behind it, on a page set_addr_rw may or may not have made writable
table_slots == 0..(NR_syscalls - 1)

\* the task dies in the kernel, keeping the locks it holds
Oops(p) ==
    /\ pc' = [pc EXCEPT ![p] = "oops"]
    /\ UNCHANGED <<sys_call_table, table, locks, arg, locals, ret, quiet, saved,
                   hist, ncalls>>
    /\ UNCHANGED <<uid, lkm>>
    /\ snap' = SnapNext

\* a step inside the critical section of Intercept or Release
SlotStep(p, l, sct, tbl, st) ==
    /\ sys_call_table' = sct
    /\ table' = tbl
    /\ status' = [status EXCEPT ![p] = st]
    /\ pc' = [pc EXCEPT ![p] = l]
    /\ UNCHANGED <<locks, arg, hasPid, logged, ret, quiet, saved, hist, ncalls>>
    /\ UNCHANGED <<uid, lkm>>
    /\ snap' = SnapNext

\* the store that also clears the entry's monitoring state
SlotStore_clearing(p, l, sysc, h, flag) ==
    SlotStep(p, l, [sys_call_table EXCEPT ![sysc] = h],
             [table EXCEPT ![sysc].intercepted = flag,
                           ![sysc].monitored = 0,
                           ![sysc].my_list = <<>>,
                           ![sysc].listcount = 0], 0)

\* the store into the slot without the assignment of the flag
SlotStore_noflag(p, l, sysc, h, flag) ==
    SlotStep(p, l, [sys_call_table EXCEPT ![sysc] = h], table, 0)

\* the store sys_call_table[sysc] = h, then table[sysc].intercepted = flag
SlotStore(p, l, sysc, h, flag) ==
    \/ SlotStep(p, l, [sys_call_table EXCEPT ![sysc] = h],
                [table EXCEPT ![sysc].intercepted = flag], 0)
    \/ /\ sysc \notin table_slots
       /\ Oops(p)

ri_lock(p) ==
    /\ pc[p] = "r321"
    /\ LockCalltable(p, "r324")

\* line 324: the test of the flag
ri_test(p) ==
    /\ pc[p] = "r324"
    /\ IF table[EntryArg(p)].intercepted = 1
         THEN SlotStep(p, "r335", sys_call_table, table, 0 - EBUSY)
         ELSE SlotStep(p, "r330", sys_call_table, table, status[p])

\* lines 330-334
ri_store(p) ==
    /\ pc[p] = "r330"
    /\ SlotStore(p, "r335", EntryArg(p), interceptor_fn, 1)

\* lines 325-326 and 335-336
ri_return(p) == mon_return(p, "r335")

\* ------------------------------------------------------------------------
\* request_syscall_release
\* ------------------------------------------------------------------------
rr_lock(p) ==
    /\ pc[p] = "l346"
    /\ LockCalltable(p, "l349")

\* line 349: the test of the flag
rr_test(p) ==
    /\ pc[p] = "l349"
    /\ IF table[EntryArg(p)].intercepted = 0
         THEN SlotStep(p, "l359", sys_call_table, table, 0 - EINVAL)
         ELSE SlotStep(p, "l353", sys_call_table, table, status[p])

\* lines 353-358
rr_store(p) ==
    /\ pc[p] = "l353"
    /\ SlotStore(p, "l359", EntryArg(p), table[EntryArg(p)].f, 0)

\* lines 350-351 and 359-360
rr_return(p) == mon_return(p, "l359")

\* ------------------------------------------------------------------------
\* request_start_monitoring and request_stop_monitoring
\* ------------------------------------------------------------------------
mon_perm(p, here, next) ==
    /\ pc[p] = here
    /\ LET r == mon_permission(pc, p, arg[p].pid) IN
       CASE r = "oops" -> Oops(p)
         [] r = "eperm" -> Reject(p, 0 - EPERM)
         [] r = "ok" ->
              /\ pc' = [pc EXCEPT ![p] = next]
              /\ UNCHANGED <<sys_call_table, table, locks, arg, locals, ret,
                             quiet, saved, hist, ncalls>>
              /\ UNCHANGED <<uid, lkm>>
              /\ snap' = SnapNext

\* a step inside the critical section that changes only the table, pidlist_lock,
\* status and the program point
CsStep(p, l, tbl, pl, st) ==
    /\ table' = tbl
    /\ pidlist_lock' = pl
    /\ status' = [status EXCEPT ![p] = st]
    /\ pc' = [pc EXCEPT ![p] = l]
    /\ UNCHANGED <<sys_call_table, calltable_lock, arg, hasPid, logged, ret,
                   quiet, saved, hist, ncalls>>
    /\ UNCHANGED <<uid, lkm>>
    /\ snap' = SnapNext

\* the branch with monitored = 1 executed whatever the status is
start_pid_careless(tbl, sysc, pid, ok) ==
    IF tbl[sysc].monitored # 2
      THEN LET r == IF check_pid_monitored(tbl, sysc, pid) = 1
                      THEN [table |-> tbl, status |-> 0 - EBUSY]
                      ELSE add_pid_sysc(tbl, pid, sysc, ok)
           IN [r EXCEPT !.table = [r.table EXCEPT ![sysc].monitored = 1]]
      ELSE del_pid_sysc(tbl, pid, sysc)

\* the branch without the assignment monitored = 1
start_pid_nomode(tbl, sysc, pid, ok) ==
    IF tbl[sysc].monitored # 2
      THEN IF check_pid_monitored(tbl, sysc, pid) = 1
             THEN [table |-> tbl, status |-> 0 - EBUSY]
             ELSE add_pid_sysc(tbl, pid, sysc, ok)
      ELSE del_pid_sysc(tbl, pid, sysc)

\* the pid != 0 branch of request_start_monitoring, under both locks
start_pid(tbl, sysc, pid, ok) ==
    IF tbl[sysc].monitored # 2
      THEN LET r == IF check_pid_monitored(tbl, sysc, pid) = 1
                      THEN [table |-> tbl, status |-> 0 - EBUSY]
                      ELSE add_pid_sysc(tbl, pid, sysc, ok)
           IN IF r.status = 0
                THEN [r EXCEPT !.table = [r.table EXCEPT ![sysc].monitored = 1]]
                ELSE r
      ELSE del_pid_sysc(tbl, pid, sysc)

\* the pid != 0 branch of request_stop_monitoring, under both locks
stop_pid(tbl, sysc, pid, ok) ==
    IF tbl[sysc].monitored = 2
      THEN LET r == IF check_pid_monitored(tbl, sysc, pid) = 1
                      THEN [table |-> tbl, status |-> 0 - EBUSY]
                      ELSE add_pid_sysc(tbl, pid, sysc, ok)
           IN IF r.status = 0
                THEN [r EXCEPT !.table = [r.table EXCEPT ![sysc].monitored = 1]]
                ELSE r
      ELSE del_pid_sysc(tbl, pid, sysc)

sm_perm(p) == mon_perm(p, "s368", "s375")

sm_lock(p) ==
    /\ pc[p] = "s375"
    /\ LockCalltable(p, "s377")

\* lines 377-383 and 389: the branch, and spin_lock(&pidlist_lock)
sm_branch(p) ==
    /\ pc[p] = "s377"
    /\ LET sysc == arg[p].syscall IN
       IF arg[p].pid = 0
         THEN IF table[sysc].monitored = 2
                THEN CsStep(p, "s408", table, pidlist_lock, 0 - EBUSY)
                ELSE /\ pidlist_lock = 0
                     /\ CsStep(p, "s384", table, p, status[p])
         ELSE /\ pidlist_lock = 0
              /\ CsStep(p, "s392", table, p, status[p])

\* lines 384-385
sm_destroy(p) ==
    /\ pc[p] = "s384"
    /\ IF table[arg[p].syscall].list_init
         THEN CsStep(p, "s386", destroy_list(table, arg[p].syscall), 0, status[p])
         ELSE Oops(p)

\* line 386 left out: the mode stays as destroy_list left it
sm_all_skip(p) ==
    /\ pc[p] = "s386"
    /\ CsStep(p, "s408", table, pidlist_lock, status[p])

\* line 386
sm_all(p) ==
    /\ pc[p] = "s386"
    /\ CsStep(p, "s408", [table EXCEPT ![arg[p].syscall].monitored = 2],
              pidlist_lock, status[p])

\* lines 392-405
sm_pid(p) ==
    /\ pc[p] = "s392"
    /\ IF table[arg[p].syscall].list_init
         THEN \E ok \in BOOLEAN :
                LET r == start_pid(table, arg[p].syscall, arg[p].pid, ok) IN
                CsStep(p, "s408", r.table, 0, r.status)
         ELSE Oops(p)

sm_return(p) == mon_return(p, "s408")

st_perm(p) == mon_perm(p, "t417", "t424")

st_lock(p) ==
    /\ pc[p] = "t424"
    /\ LockCalltable(p, "t426")

\* lines 426-432 and 437
st_branch(p) ==
    /\ pc[p] = "t426"
    /\ LET sysc == arg[p].syscall IN
       IF arg[p].pid = 0
         THEN IF table[sysc].monitored # 2
                THEN CsStep(p, "t456", table, pidlist_lock, 0 - EINVAL)
                ELSE /\ pidlist_lock = 0
                     /\ CsStep(p, "t433", table, p, status[p])
         ELSE /\ pidlist_lock = 0
              /\ CsStep(p, "t440", table, p, status[p])

\* lines 433-434
st_destroy(p) ==
    /\ pc[p] = "t433"
    /\ IF table[arg[p].syscall].list_init
         THEN CsStep(p, "t456", destroy_list(table, arg[p].syscall), 0, status[p])
         ELSE Oops(p)

\* lines 440-453
st_pid(p) ==
    /\ pc[p] = "t440"
    /\ IF table[arg[p].syscall].list_init
         THEN \E ok \in BOOLEAN :
                LET r == stop_pid(table, arg[p].syscall, arg[p].pid, ok) IN
                CsStep(p, "t456", r.table, 0, r.status)
         ELSE Oops(p)

st_return(p) == mon_return(p, "t456")


\* ------------------------------------------------------------------------
\* interceptor: runs when a process issues a system call whose slot holds it
\* ------------------------------------------------------------------------
\* a step of interceptor or of the hook that changes no table and no history
ShimStep(p, l, ct, pl, hp, lg) ==
    /\ pc' = [pc EXCEPT ![p] = l]
    /\ calltable_lock' = ct
    /\ pidlist_lock' = pl
    /\ hasPid' = [hasPid EXCEPT ![p] = hp]
    /\ logged' = [logged EXCEPT ![p] = lg]
    /\ UNCHANGED <<sys_call_table, table, arg, status, ret, quiet, saved, hist, ncalls>>
    /\ UNCHANGED <<uid, lkm>>
    /\ snap' = SnapNext

interceptor_enter(p, nr) ==
    /\ sys_call_table[nr] = interceptor_fn
    /\ Issue(p, [NoArg EXCEPT !.nr = nr], IF nr = NR_exit_group THEN 1 ELSE 0)
    /\ pc' = [pc EXCEPT ![p] = "i294"]
    /\ quiet' = [quiet EXCEPT ![p] = Quiescent(calltable_lock, pc)]
    /\ UNCHANGED <<sys_call_table, table, locks, locals, ret, saved, hist>>
    /\ UNCHANGED <<uid, lkm>>
    /\ snap' = SnapNext

\* line 294
i_lock_calltable(p) ==
    /\ pc[p] = "i294"
    /\ calltable_lock = 0
    /\ ShimStep(p, "i297", p, pidlist_lock, hasPid[p], logged[p])

\* line 297
i_lock_pidlist(p) ==
    /\ pc[p] = "i297"
    /\ pidlist_lock = 0
    /\ ShimStep(p, "i298", calltable_lock, p, hasPid[p], logged[p])

\* lines 298-299
i_check(p) ==
    /\ pc[p] = "i298"
    /\ ShimStep(p, "i302", calltable_lock, 0,
                check_pid_monitored(table, arg[p].nr, p), logged[p])

\* line 302
i_unlock_calltable(p) ==
    /\ pc[p] = "i302"
    /\ ShimStep(p, "i305", 0, pidlist_lock, hasPid[p], logged[p])

\* lines 305-307: monitored is read here, after both locks were released
i_decide(p) ==
    /\ pc[p] = "i305"
    /\ ShimStep(p, "i309", calltable_lock, pidlist_lock, hasPid[p],
                LogDecision(table[arg[p].nr].monitored, hasPid[p]))

ExitArg(p) == [nr |-> NR_exit_group, cmd |-> "exit_group",
               syscall |-> NR_exit_group, pid |-> p]

\* line 309: the call of table[reg.ax].f
i_forward(p) ==
    /\ pc[p] = "i309"
    /\ LET f == table[arg[p].nr].f IN
       CASE f = my_exit_group_fn ->
              /\ pc' = [pc EXCEPT ![p] = "e258"]
              /\ arg' = [arg EXCEPT ![p] = ExitArg(p)]
              /\ UNCHANGED ret
         [] f.fn = "sys" ->
              /\ Done(p, 0)
              /\ UNCHANGED arg
         [] OTHER ->
              /\ pc' = [pc EXCEPT ![p] = "oops"]
              /\ UNCHANGED <<arg, ret>>
    /\ hasPid' = [hasPid EXCEPT ![p] = 0]
    /\ logged' = [logged EXCEPT ![p] = FALSE]
    /\ quiet' = [quiet EXCEPT ![p] = FALSE]
    /\ UNCHANGED <<sys_call_table, table, locks, status, saved, hist, ncalls>>
    /\ UNCHANGED <<uid, lkm>>
    /\ snap' = SnapNext

\* a system call whose slot holds the kernel's own handler
original_syscall(p, nr) ==
    /\ sys_call_table[nr].fn = "sys"
    /\ Issue(p, [NoArg EXCEPT !.nr = nr], IF nr = NR_exit_group THEN 1 ELSE 0)
    /\ IF nr = NR_exit_group
         THEN pc' = [pc EXCEPT ![p] = "dead"] /\ UNCHANGED ret
         ELSE Done(p, 0)
    /\ UNCHANGED <<sys_call_table, table, locks, locals, quiet, saved, hist>>
    /\ UNCHANGED <<uid, lkm>>
    /\ snap' = SnapNext

\* ------------------------------------------------------------------------
\* my_exit_group
\* ------------------------------------------------------------------------
my_exit_group_enter(p) ==
    /\ sys_call_table[NR_exit_group] = my_exit_group_fn
    /\ Issue(p, ExitArg(p), 1)
    /\ pc' = [pc EXCEPT ![p] = "e258"]
    /\ UNCHANGED <<sys_call_table, table, locks, locals, ret, quiet, saved, hist>>
    /\ UNCHANGED <<uid, lkm>>
    /\ snap' = SnapNext

\* line 258
eg_lock_calltable(p) ==
    /\ pc[p] = "e258"
    /\ LockCalltable(p, "e259")

\* line 259
eg_lock_pidlist(p) ==
    /\ pc[p] = "e259"
    /\ pidlist_lock = 0
    /\ ShimStep(p, "e262", calltable_lock, p, hasPid[p], logged[p])

\* lines 262-265
eg_del_pid(p) ==
    /\ pc[p] = "e262"
    /\ CsStep(p, "e266", del_pid(table, p), 0, status[p])

\* line 266
eg_unlock_calltable(p) ==
    /\ pc[p] = "e266"
    /\ calltable_lock' = 0
    /\ pc' = [pc EXCEPT ![p] = "e269"]
    /\ hist' = [s \in 0..NR_syscalls |-> <<>>]
    /\ saved' = [saved EXCEPT ![p] = NoSaved]
    /\ UNCHANGED <<sys_call_table, table, pidlist_lock, arg, locals, ret, quiet, ncalls>>
    /\ UNCHANGED <<uid, lkm>>
    /\ snap' = SnapNext

\* line 269: orig_exit_group ends the process
eg_orig_exit_group(p) ==
    /\ pc[p] = "e269"
    /\ pc' = [pc EXCEPT ![p] = "dead"]
    /\ arg' = [arg EXCEPT ![p] = NoArg]
    /\ UNCHANGED <<sys_call_table, table, locks, locals, ret, quiet, saved, hist, ncalls>>
    /\ UNCHANGED <<uid, lkm>>
    /\ snap' = SnapNext

\* back in user mode
Return(p) ==
    /\ pc[p] = "done"
    /\ pc' = [pc EXCEPT ![p] = "idle"]
    /\ arg' = [arg EXCEPT ![p] = NoArg]
    /\ ret' = [ret EXCEPT ![p] = 0]
    /\ UNCHANGED <<sys_call_table, table, locks, locals, quiet, saved, hist, ncalls>>
    /\ UNCHANGED <<uid, lkm>>
    /\ snap' = SnapNext

\* ------------------------------------------------------------------------
\* init_function and exit_function
\* ------------------------------------------------------------------------
\* a step of init_function or exit_function
LkmStep(l, ct, pl, sct, tbl) ==
    /\ lkm' = l
    /\ calltable_lock' = ct
    /\ pidlist_lock' = pl
    /\ sys_call_table' = sct
    /\ table' = tbl
    /\ UNCHANGED <<uid, pc, arg, locals, ret, quiet, saved, hist>>
    /\ snap' = SnapNext

\* line 566
init_lock_calltable ==
    /\ lkm = "n566"
    /\ calltable_lock = 0
    /\ LkmStep("n567", Loader, pidlist_lock, sys_call_table, table)
    /\ UNCHANGED ncalls

\* line 567
init_lock_pidlist ==
    /\ lkm = "n567"
    /\ pidlist_lock = 0
    /\ LkmStep("n569", calltable_lock, Loader, sys_call_table, table)
    /\ UNCHANGED ncalls

\* lines 569-590
init_body ==
    /\ lkm = "n569"
    /\ LkmStep("n592", calltable_lock, pidlist_lock, init_sys_call_table, init_table)
    /\ UNCHANGED ncalls

\* line 592
init_unlock_pidlist ==
    /\ lkm = "n592"
    /\ LkmStep("n593", calltable_lock, 0, sys_call_table, table)
    /\ UNCHANGED ncalls

\* line 593
init_unlock_calltable ==
    /\ lkm = "n593"
    /\ LkmStep("loaded", 0, pidlist_lock, sys_call_table, table)
    /\ UNCHANGED ncalls

\* line 612; rmmod counts among the calls that change the tables
exit_lock_calltable ==
    /\ lkm = "loaded"
    /\ calltable_lock = 0
    /\ ncalls + 1 <= MaxCalls
    /\ ncalls' = ncalls + 1
    /\ LkmStep("x613", Loader, pidlist_lock, sys_call_table, table)

\* line 613
exit_lock_pidlist ==
    /\ lkm = "x613"
    /\ pidlist_lock = 0
    /\ LkmStep("x615", calltable_lock, Loader, sys_call_table, table)
    /\ UNCHANGED ncalls

\* lines 615-622
exit_body ==
    /\ lkm = "x615"
    /\ LkmStep("x624", calltable_lock, pidlist_lock,
               [sys_call_table EXCEPT ![MY_CUSTOM_SYSCALL] = orig_custom_syscall,
                                      ![NR_exit_group] = orig_exit_group],
               table)
    /\ UNCHANGED ncalls

\* line 624
exit_unlock_pidlist ==
    /\ lkm = "x624"
    /\ LkmStep("x625", calltable_lock, 0, sys_call_table, table)
    /\ UNCHANGED ncalls

\* line 625
exit_unlock_calltable ==
    /\ lkm = "x625"
    /\ LkmStep("unloaded", 0, pidlist_lock, sys_call_table, table)
    /\ UNCHANGED ncalls

\* After exit_function the module's code is freed.  A process that is inside
\* it, or that issues a system call whose slot still points into it, executes
\* whatever the memory holds: it goes on as if the code were still there (the
\* other actions), or it faults.
freed_code_step(p) ==
    /\ lkm = "unloaded"
    /\ pc[p] \notin {"idle", "done", "dead", "oops"}
    /\ Oops(p)

freed_code_call(p, nr) ==
    /\ lkm = "unloaded"
    /\ sys_call_table[nr].fn # "sys"
    /\ Issue(p, [NoArg EXCEPT !.nr = nr], 0)
    /\ pc' = [pc EXCEPT ![p] = "oops"]
    /\ UNCHANGED <<sys_call_table, table, locks, locals, ret, quiet, saved, hist>>
    /\ UNCHANGED <<uid, lkm>>
    /\ snap' = SnapNext

Next ==
    \/ init_lock_calltable \/ init_lock_pidlist \/ init_body
    \/ init_unlock_pidlist \/ init_unlock_calltable
    \/ exit_lock_calltable \/ exit_lock_pidlist \/ exit_body
    \/ exit_unlock_pidlist \/ exit_unlock_calltable
    \/ \E p \in Pids : freed_code_step(p)
    \/ \E p \in Pids : \E nr \in 1..(NR_syscalls - 1) : freed_code_call(p, nr)
    \/ \E p \in Pids :
        \/ \E in \in Inputs : my_syscall(p, in[1], in[2], in[3])
        \/ ri_lock(p) \/ ri_test(p) \/ ri_store(p) \/ ri_return(p)
        \/ rr_lock(p) \/ rr_test(p) \/ rr_store(p) \/ rr_return(p)
        \/ sm_perm(p) \/ sm_lock(p) \/ sm_branch(p) \/ sm_destroy(p)
        \/ sm_all(p) \/ sm_pid(p) \/ sm_return(p)
        \/ st_perm(p) \/ st_lock(p) \/ st_branch(p) \/ st_destroy(p)
        \/ st_pid(p) \/ st_return(p)
        \/ \E nr \in 1..(NR_syscalls - 1) :
               interceptor_enter(p, nr) \/ original_syscall(p, nr)
        \/ i_lock_calltable(p) \/ i_lock_pidlist(p) \/ i_check(p)
        \/ i_unlock_calltable(p) \/ i_decide(p) \/ i_forward(p)
        \/ my_exit_group_enter(p)
        \/ eg_lock_calltable(p) \/ eg_lock_pidlist(p) \/ eg_del_pid(p)
        \/ eg_unlock_calltable(p) \/ eg_orig_exit_group(p)
        \/ Return(p)

Spec == Init /\ [][Next]_vars

\* ------------------------------------------------------------------------
\* Properties
\* ------------------------------------------------------------------------
\* C1: when interceptor has decided (it is about to forward the call), its
\* log/no-log outcome is the value of the rule "(mode = All and p not on the
\* list) or (mode = Whitelist and p on the list)" on one of the tables that the
\* commands found or left during the invocation: the mode and the membership
\* it used are never those of two states separated by a command.
C1_DecisionFromOneState ==
    \A q \in Pids : pc[q] = "i309" => logged[q] \in snap[q]

\* C2: StopMonitoring(O, p), p # 0, on an entry in mode All whose list does not
\* hold p returns 0 (kmalloc permitting), leaves the mode All and puts p on the
\* list; after StartMonitoring(O, 0) and such a StopMonitoring(O, p), an
\* invocation of O that no command overlaps logs iff the caller is not p.
C2_StopExcludesFromAll ==
    /\ \A p \in Pids :
         (/\ pc[p] = "t456"
          /\ PidArg(p) # 0
          /\ saved[p].table[EntryArg(p)].monitored = 2
          /\ check_pid_monitored(saved[p].table, EntryArg(p), PidArg(p)) = 0
          /\ status[p] # 0 - ENOMEM)
         => /\ status[p] = 0
            /\ table[EntryArg(p)].monitored = 2
            /\ check_pid_monitored(table, EntryArg(p), PidArg(p)) = 1
    /\ \A q \in Pids :
         (/\ pc[q] = "i309"
          /\ quiet[q]
          /\ Len(hist[arg[q].nr]) = 2
          /\ IsStopPid(hist[arg[q].nr][2]))
         => logged[q] = (q # hist[arg[q].nr][2].pid)

\* C3: after StartMonitoring(O, 0) = 0 and StopMonitoring(O, p) = 0, p # 0, with
\* no command on O and no exit in between, a second StopMonitoring(O, p) ends
\* its critical section with status -EBUSY and the table and the slots as they
\* were when it took the lock.
C3_SecondStopIsBusy ==
    \A p \in Pids :
        (/\ pc[p] = "t456"
         /\ Len(hist[EntryArg(p)]) = 2
         /\ IsStopPid(hist[EntryArg(p)][2])
         /\ PidArg(p) = hist[EntryArg(p)][2].pid)
        => /\ status[p] = 0 - EBUSY
           /\ table = saved[p].table
           /\ sys_call_table = saved[p].sct

\* C4: a call of my_syscall whose syscall argument is <= 0, > NR_syscalls or
\* MY_CUSTOM_SYSCALL returns -EINVAL at once, whatever the command and the
\* caller: it reaches no command and changes neither table nor a lock.
C4_InvalidIdRejected ==
    [][\A p \in Pids :
         (/\ pc[p] = "idle"
          /\ pc'[p] # "idle"
          /\ arg'[p].nr = MY_CUSTOM_SYSCALL
          /\ \/ arg'[p].syscall <= 0
             \/ arg'[p].syscall > NR_syscalls
             \/ arg'[p].syscall = MY_CUSTOM_SYSCALL)
         => /\ pc'[p] = "done"
            /\ ret'[p] = 0 - EINVAL
            /\ UNCHANGED <<sys_call_table, table, locks>>]_vars

C4_Witness ==
    \E p \in Pids :
        /\ pc[p] = "done"
        /\ uid[p] = 0
        /\ arg[p].nr = MY_CUSTOM_SYSCALL
        /\ arg[p].cmd = REQUEST_SYSCALL_INTERCEPT
        /\ arg[p].syscall = MY_CUSTOM_SYSCALL
        /\ ret[p] = 0 - EINVAL
        /\ \E s \in 1..NR_syscalls : table[s].intercepted = 1

\* C5: every step of a process that is not root leaves the slots, the
\* intercepted flags and the saved handlers alone and changes the membership
\* of no pid of another owner; its Intercept, its Release and its Start/Stop
\* with pid 0 return -EPERM at once; its Start/Stop naming a live pid of
\* another owner returns -EPERM from the permission test (as long as the
\* module's code is in memory); and it reaches the critical section of
\* Start/Stop only for a nonzero pid of its own uid.
C5_UnprivilegedDenied ==
    [][\A p \in Pids :
         (uid[p] # 0 /\ pc'[p] # pc[p])
         => /\ sys_call_table' = sys_call_table
            /\ \A s \in 0..NR_syscalls :
                 /\ table'[s].f = table[s].f
                 /\ table'[s].intercepted = table[s].intercepted
                 /\ \A q \in Pids :
                      check_pid_monitored(table', s, q) # check_pid_monitored(table, s, q)
                      => uid[q] = uid[p]
            /\ (/\ pc[p] = "idle"
                /\ arg'[p].nr = MY_CUSTOM_SYSCALL
                /\ arg'[p].syscall \in 1..NR_syscalls
                /\ \/ arg'[p].cmd \in {REQUEST_SYSCALL_INTERCEPT, REQUEST_SYSCALL_RELEASE}
                   \/ arg'[p].cmd \in MonCmds /\ arg'[p].pid = 0)
               => pc'[p] = "done" /\ ret'[p] = 0 - EPERM /\ table' = table
            /\ (/\ pc[p] \in {"s368", "t417"}
                /\ lkm # "unloaded"
                /\ Alive(pc, PidArg(p))
                /\ uid[PidArg(p)] # uid[p])
               => pc'[p] = "done" /\ ret'[p] = 0 - EPERM /\ table' = table
            /\ pc'[p] \in {"s375", "t424"}
               => arg'[p].pid # 0 /\ uid[arg'[p].pid] = uid[p]]_vars

C5_Witness ==
    \E p \in Pids :
        /\ uid[p] # 0
        /\ pc[p] = "done"
        /\ ret[p] = 0 - EPERM
        /\ arg[p].cmd = REQUEST_START_MONITORING
        /\ PidArg(p) # 0
        /\ uid[PidArg(p)] # uid[p]
        /\ Alive(pc, PidArg(p))

\* C6: a call of my_syscall that returns a nonzero value returns with the table
\* and the slots as they were when the call took calltable_lock, or, when it
\* returns before taking it, as they were in the state it returns from.
C6_ErrorChangesNothing ==
    [][\A p \in Pids :
         (/\ pc[p] # "done"
          /\ pc'[p] = "done"
          /\ arg'[p].nr = MY_CUSTOM_SYSCALL
          /\ ret'[p] # 0)
         => /\ UNCHANGED <<sys_call_table, table>>
            /\ saved[p] # NoSaved
               => table = saved[p].table /\ sys_call_table = saved[p].sct]_vars

C6_Witness ==
    \E p \in Pids :
        /\ pc[p] = "done"
        /\ arg[p].cmd = REQUEST_START_MONITORING
        /\ PidArg(p) # 0
        /\ ret[p] = 0 - EBUSY
        /\ check_pid_monitored(table, EntryArg(p), PidArg(p)) = 1

\* C7: the pid of a process that has gone through my_exit_group is on the list
\* of no entry.
C7_NoStalePid ==
    \A q \in Pids :
        pc[q] = "dead"
        => \A s \in 1..NR_syscalls : check_pid_monitored(table, s, q) = 0

\* C8: when my_exit_group has run del_pid for p, p is on the list of no entry
\* 1..NR_syscalls; against the table the hook found, the count of each entry
\* that held p is one less and every other entry is as it was; a Whitelist
\* entry whose list is now empty has mode 0 and an entry in mode All keeps it.
C8_HookPurges ==
    \A p \in Pids :
        pc[p] = "e266"
        => \A s \in 1..NR_syscalls :
             LET old == saved[p].table[s]
                 new == table[s]
                 was == check_pid_monitored(saved[p].table, s, p) = 1
             IN /\ check_pid_monitored(table, s, p) = 0
                /\ new.listcount = old.listcount - (IF was THEN 1 ELSE 0)
                /\ new.listcount = Len(new.my_list)
                /\ (old.monitored = 1 /\ new.my_list = <<>>) => new.monitored = 0
                /\ old.monitored = 2 => new.monitored = 2
                /\ ~was => new = old

C8_Witness ==
    \E p \in Pids :
        /\ pc[p] = "e266"
        /\ \E s \in 1..NR_syscalls :
             /\ check_pid_monitored(saved[p].table, s, p) = 1
             /\ saved[p].table[s].monitored = 1
             /\ table[s].monitored = 0

\* C9: once init_function has filled the table, no command changes the saved
\* handler f of an entry, and a Release(O)
\* that succeeds leaves in slot O what the slot held when init_function read
\* it, with intercepted = 0.
C9_ReleaseRestores ==
    /\ lkm \notin {"n566", "n567", "n569"}
       => \A s \in 0..NR_syscalls : table[s].f = init_table[s].f
    /\ \A p \in Pids :
         (pc[p] = "l359" /\ status[p] = 0)
         => /\ sys_call_table[EntryArg(p)] = init_sys_call_table[EntryArg(p)]
            /\ table[EntryArg(p)].intercepted = 0

\* C10 (as amended): Intercept(O) by root ends with status 0 and the flag set
\* if the flag was 0 when it took the lock and with -EBUSY otherwise; Release(O)
\* ends with 0 and the flag cleared if the flag was 1 and with -EINVAL
\* otherwise; and of two Intercept(O) (two Release(O)) with no other command on
\* O between them, the second returns -EBUSY (-EINVAL), so that at most one
\* returns 0, and exactly one when the first found the flag 0 (1).
C10_TestAndSet ==
    \A p \in Pids :
        LET was == saved[p].table[EntryArg(p)].intercepted
            h == hist[EntryArg(p)]
            again == Len(h) > 0 /\ h[Len(h)].cmd = arg[p].cmd
        IN /\ pc[p] = "r335"
              => /\ status[p] = (IF was = 0 THEN 0 ELSE 0 - EBUSY)
                 /\ table[EntryArg(p)].intercepted = 1
                 /\ again => status[p] = 0 - EBUSY
           /\ pc[p] = "l359"
              => /\ status[p] = (IF was = 1 THEN 0 ELSE 0 - EINVAL)
                 /\ table[EntryArg(p)].intercepted = 0
                 /\ again => status[p] = 0 - EINVAL

\* two Intercept(1) in the kernel at the same time: one has returned 0 and the
\* other ends with -EBUSY
C10_Witness ==
    \E p, q \in Pids :
        /\ p # q
        /\ pc[p] = "r335"
        /\ pc[q] = "done"
        /\ arg[p].cmd = REQUEST_SYSCALL_INTERCEPT
        /\ arg[q].cmd = REQUEST_SYSCALL_INTERCEPT
        /\ EntryArg(p) = EntryArg(q)
        /\ ret[q] = 0
        /\ status[p] = 0 - EBUSY

\* C10 (as stated): of two Intercept(O), or two Release(O), in the kernel at the
\* same time, the second following the first with no other command on O in
\* between, exactly one returns 0.
C10_ExactlyOneReturnsZero ==
    \A p, q \in Pids :
        (/\ p # q
         /\ pc[p] \in {"r335", "l359"}
         /\ pc[q] = "done"
         /\ arg[q].nr = MY_CUSTOM_SYSCALL
         /\ arg[q].cmd = arg[p].cmd
         /\ EntryArg(q) = EntryArg(p)
         /\ Len(hist[EntryArg(p)]) > 0
         /\ hist[EntryArg(p)][Len(hist[EntryArg(p)])] = Event(arg[q], ret[q]))
        => (ret[q] = 0) # (status[p] = 0)

\* C11: StartMonitoring(O, pid) that finds its target already monitored ends
\* its critical section with status -EBUSY and with the table and the slots
\* as it found them: pid = 0 in mode All; pid # 0 on the list in mode
\* Whitelist; pid # 0 not on the list in mode All.
C11_StartAlreadyMonitoredIsBusy ==
    \A p \in Pids :
        LET old == saved[p].table[EntryArg(p)]
            listed == check_pid_monitored(saved[p].table, EntryArg(p), PidArg(p)) = 1
        IN (/\ pc[p] = "s408"
            /\ \/ PidArg(p) = 0 /\ old.monitored = 2
               \/ PidArg(p) # 0 /\ old.monitored = 1 /\ listed
               \/ PidArg(p) # 0 /\ old.monitored = 2 /\ ~listed)
           => /\ status[p] = 0 - EBUSY
              /\ table = saved[p].table
              /\ sys_call_table = saved[p].sct

\* C12: StartMonitoring(O, 0) that finds the mode None or Whitelist ends its
\* critical section with status 0, mode All, an empty list and count 0; and an
\* invocation of O that starts after that command, with no other command or
\* hook run since, is logged whoever the caller is.
C12_StartAllLogsEveryone ==
    /\ \A p \in Pids :
           (/\ pc[p] = "s408"
            /\ PidArg(p) = 0
            /\ saved[p].table[EntryArg(p)].monitored # 2)
           => /\ status[p] = 0
              /\ table[EntryArg(p)].monitored = 2
              /\ table[EntryArg(p)].my_list = <<>>
              /\ table[EntryArg(p)].listcount = 0
    /\ \A q \in Pids :
           (/\ pc[q] = "i309"
            /\ quiet[q]
            /\ Len(hist[arg[q].nr]) = 1
            /\ IsStartAll(hist[arg[q].nr][1]))
           => logged[q]

\* an invocation by a non-root process is logged after StartMonitoring(O, 0)
\* replaced the mode Whitelist
C12_Witness ==
    \E q \in Pids :
        /\ pc[q] = "i309"
        /\ quiet[q]
        /\ UidOf(q) # 0
        /\ Len(hist[arg[q].nr]) = 1
        /\ IsStartAll(hist[arg[q].nr][1])
        /\ table[arg[q].nr].monitored = 2
        /\ logged[q]

\* program points at which one pid is unlinked from a list: the pid branches of
\* the two monitoring commands and del_pid in the exit_group hook
UnlinkPcs == {"s392", "t440", "e262"}

\* C13: a step of a monitoring command's pid branch or of the hook that takes
\* the last pid off a Whitelist list leaves the mode None, in that same step
\* under both locks; no such step takes an entry from mode All to mode None,
\* and unlinking a pid from a list of one or two pids of an entry in mode All
\* leaves the mode All; and an invocation that runs while the mode is None, no
\* command or hook having run since it entered, is not logged.
C13_LastMemberResetsWhitelistOnly ==
    [][/\ \A p \in Pids : \A s \in 1..NR_syscalls :
            (/\ pc[p] \in UnlinkPcs
             /\ pc'[p] # pc[p]
             /\ table[s].my_list # <<>>
             /\ table'[s].my_list = <<>>)
            => /\ calltable_lock = p /\ pidlist_lock = p
               /\ table[s].monitored = 1 => table'[s].monitored = 0
       /\ \A p \in Pids : \A s \in 1..NR_syscalls :
            (/\ pc[p] \in UnlinkPcs
             /\ pc'[p] # pc[p]
             /\ table[s].monitored = 2)
            => table'[s].monitored # 0
       /\ \A l \in {<<x>> : x \in Pids} \cup {<<x, y>> : x, y \in Pids} :
            \A i \in 1..Len(l) :
               LET e == [f |-> Kernel(1), intercepted |-> 1, monitored |-> 2,
                         listcount |-> Len(l), my_list |-> l, list_init |-> TRUE]
               IN Unlink(e, i).monitored = 2
       /\ \A q \in Pids :
            (/\ pc'[q] = "i309"
             /\ quiet'[q]
             /\ table'[arg'[q].nr].monitored = 0)
            => ~logged'[q]
      ]_vars

\* StopMonitoring(O, pid) has just taken the only pid off a Whitelist list
C13_Witness ==
    \E p \in Pids :
        /\ pc[p] = "t456"
        /\ status[p] = 0
        /\ saved[p].table[EntryArg(p)].monitored = 1
        /\ saved[p].table[EntryArg(p)].my_list = <<PidArg(p)>>
        /\ table[EntryArg(p)].my_list = <<>>
        /\ table[EntryArg(p)].monitored = 0

\* C14: once exit_function has done its stores (from line 624 on, and after it
\* has returned), every slot of sys_call_table holds the kernel's own handler
\* of that system call and every list of table[] is empty.
C14_ShutdownRestoresAll ==
    lkm \in {"x624", "x625", "unloaded"}
    => /\ \A s \in table_slots : sys_call_table[s] = KernelTable[s]
       /\ \A s \in 0..NR_syscalls : table[s].my_list = <<>>

\* C15: StopMonitoring(O, pid) that finds O not intercepted, or finds pid not
\* monitored for O (pid = 0 and the mode not All; pid # 0 and the mode None,
\* or Whitelist without pid on the list, or All with pid on the list), ends its
\* critical section with status -EINVAL and with the table and the slots as it
\* found them.
C15_StopNeedsInterceptedAndMonitored ==
    \A p \in Pids :
        LET old == saved[p].table[EntryArg(p)]
            listed == check_pid_monitored(saved[p].table, EntryArg(p), PidArg(p)) = 1
            monitoredBefore ==
                IF PidArg(p) = 0
                  THEN old.monitored = 2
                  ELSE \/ old.monitored = 1 /\ listed
                       \/ old.monitored = 2 /\ ~listed
        IN (/\ pc[p] = "t456"
            /\ old.intercepted = 0 \/ ~monitoredBefore)
           => /\ status[p] = 0 - EINVAL
              /\ table = saved[p].table
              /\ sys_call_table = saved[p].sct

\* program points of request_syscall_intercept and request_syscall_release
SlotCmdPcs == {"r321", "r324", "r330", "r335", "l346", "l349", "l353", "l359"}
\* program points of request_start_monitoring and request_stop_monitoring
MonCmdPcs == {"s368", "s375", "s377", "s384", "s386", "s392", "s408",
              "t417", "t424", "t426", "t433", "t440", "t456"}

\* C16: every step of Intercept or Release leaves the mode, the list and the
\* count of every entry unchanged, hence also what interceptor would decide for
\* every pid; every step of StartMonitoring or StopMonitoring leaves every
\* slot of sys_call_table and every intercepted flag unchanged.
C16_SlotAndMonitoringStateIndependent ==
    [][\A p \in Pids :
         /\ (pc[p] \in SlotCmdPcs /\ pc'[p] # pc[p])
            => \A s \in 0..NR_syscalls :
                 /\ table'[s].monitored = table[s].monitored
                 /\ table'[s].my_list = table[s].my_list
                 /\ table'[s].listcount = table[s].listcount
                 /\ \A q \in Pids :
                      LogDecision(table'[s].monitored, check_pid_monitored(table', s, q))
                      = LogDecision(table[s].monitored, check_pid_monitored(table, s, q))
         /\ (pc[p] \in MonCmdPcs /\ pc'[p] # pc[p])
            => /\ sys_call_table' = sys_call_table
               /\ \A s \in 0..NR_syscalls :
                    table'[s].intercepted = table[s].intercepted
      ]_vars

\* Release(O) has restored the slot of an entry that is in mode Whitelist with
\* a pid on its list
C16_Witness ==
    \E p \in Pids :
        /\ pc[p] = "l359"
        /\ status[p] = 0
        /\ saved[p].table[EntryArg(p)].intercepted = 1
        /\ table[EntryArg(p)].intercepted = 0
        /\ sys_call_table[EntryArg(p)] = table[EntryArg(p)].f
        /\ table[EntryArg(p)].monitored = 1
        /\ table[EntryArg(p)].my_list # <<>>

\* C17: whenever pidlist_lock is free, listcount of every entry equals the
\* number of nodes on its list and is not negative.
C17_CountIsLength ==
    pidlist_lock = 0
    => \A s \in 0..NR_syscalls :
          /\ table[s].listcount = Len(table[s].my_list)
          /\ table[s].listcount >= 0

\* the hook has taken the exiting pid off a list that two commands had filled
\* with two pids
C17_Witness ==
    \E p \in Pids : \E s \in 1..NR_syscalls :
        /\ pc[p] = "e266"
        /\ pidlist_lock = 0
        /\ Len(saved[p].table[s].my_list) = 2
        /\ table[s].listcount = 1
        /\ Len(table[s].my_list) = 1

\* C18: whenever calltable_lock and pidlist_lock are both free, every entry
\* whose monitored is 0 has an empty list and listcount 0.
C18_NoneMeansEmpty ==
    (calltable_lock = 0 /\ pidlist_lock = 0)
    => \A s \in 0..NR_syscalls :
          table[s].monitored = 0
          => table[s].my_list = <<>> /\ table[s].listcount = 0

\* StartMonitoring(O, pid) has failed with -ENOMEM on an entry in mode None
C18_Witness ==
    \E p \in Pids :
        /\ pc[p] = "done"
        /\ arg[p].cmd = REQUEST_START_MONITORING
        /\ arg[p].pid # 0
        /\ ret[p] = 0 - ENOMEM
        /\ calltable_lock = 0 /\ pidlist_lock = 0
        /\ table[arg[p].syscall].monitored = 0
        /\ table[arg[p].syscall].my_list = <<>>
        /\ \E s \in 1..NR_syscalls : table[s].monitored = 1

\* program points at which a path is about to take calltable_lock, about to
\* take pidlist_lock, and inside the section that holds pidlist_lock
CalltableWaitPcs == {"r321", "l346", "s375", "t424", "i294", "e258"}
PidlistWaitPcs == {"i297", "e259", "s377", "t426"}
PidlistCsPcs == {"i298", "e262", "s384", "s392", "t433", "t440"}

\* a process is inside a system call and has not died there
Running(p) == pc[p] \notin {"idle", "done", "dead", "oops"}

\* a process is at a spin_lock whose lock another path holds
Blocked(p) ==
    \/ pc[p] \in CalltableWaitPcs /\ calltable_lock # 0
    \/ pc[p] \in PidlistWaitPcs /\ pidlist_lock \notin {0, p}
       /\ (pc[p] \in {"s377", "t426"} =>
              \/ arg[p].pid # 0
              \/ pc[p] = "s377" /\ table[arg[p].syscall].monitored # 2
              \/ pc[p] = "t426" /\ table[arg[p].syscall].monitored = 2)

\* the same for init_function and exit_function
LoaderRunning == lkm \notin {"loaded", "unloaded"}
LoaderBlocked ==
    \/ lkm = "n566" /\ calltable_lock # 0
    \/ lkm \in {"n567", "x613"} /\ pidlist_lock # 0

\* pidlist_lock is only ever held by the holder of calltable_lock: it is taken
\* second and released first
LockOrder == pidlist_lock # 0 => calltable_lock = pidlist_lock

\* a path that has returned holds no lock
NoLockAfterReturn ==
    /\ \A p \in Pids :
          pc[p] \in {"idle", "done", "dead"}
          => calltable_lock # p /\ pidlist_lock # p
    /\ lkm \in {"loaded", "unloaded"}
       => calltable_lock # Loader /\ pidlist_lock # Loader

\* at most one path is inside the section guarded by pidlist_lock
ListSectionExclusive ==
    Cardinality({p \in Pids : pc[p] \in PidlistCsPcs})
      + (IF lkm \in {"n569", "n592", "x615", "x624"} THEN 1 ELSE 0) <= 1

\* some path is running and every running path is at a spin_lock whose lock
\* is held by another path
AllWaiting ==
    /\ LoaderRunning \/ \E p \in Pids : Running(p)
    /\ LoaderRunning => LoaderBlocked
    /\ \A p \in Pids : Running(p) => Blocked(p)

\* C19: calltable_lock is taken before pidlist_lock and released after it by
\* every path; a path that has returned holds neither lock; at most one path is
\* inside the pidlist_lock section; and no reachable state has every running
\* path waiting for a lock.
C19_LockDisciplineNoDeadlock ==
    /\ LockOrder
    /\ NoLockAfterReturn
    /\ ListSectionExclusive
    /\ ~AllWaiting

\* the system call numbers my_syscall lets through its first check
AcceptedIds == {id \in SyscallArgs : ~syscall_invalid(id)}

\* C20: when init_function has done its stores, every system call number that
\* my_syscall accepts has an entry with f captured from sys_call_table,
\* intercepted 0, monitored 0, listcount 0 and an initialised empty list; and
\* a command past its argument checks works on an entry that init_function
\* initialised and on a slot inside sys_call_table.
C20_AcceptedIdsAreInitialised ==
    /\ lkm \in {"n592", "n593"}
       => \A id \in AcceptedIds :
             /\ table[id].f = sys_call_table[id]
             /\ table[id].intercepted = 0
             /\ table[id].monitored = 0
             /\ table[id].listcount = 0
             /\ table[id].list_init
             /\ table[id].my_list = <<>>
    /\ \A p \in Pids :
          pc[p] \in SlotCmdPcs \cup MonCmdPcs
          => /\ table[EntryArg(p)].list_init
             /\ EntryArg(p) \in table_slots

\* C21: while the module is loaded and calltable_lock is free, the flag
\* intercepted of every entry is 1 exactly when the slot of that system call
\* holds interceptor.
C21_FlagIffSlotHoldsInterceptor ==
    (lkm = "loaded" /\ calltable_lock = 0)
    => \A s \in 0..NR_syscalls :
          table[s].intercepted = 1 <=> sys_call_table[s] = interceptor_fn

\* with the lock free, one system call is intercepted and another one has just
\* been released
C21_Witness ==
    /\ lkm = "loaded"
    /\ calltable_lock = 0
    /\ \E s \in 1..NR_syscalls :
          table[s].intercepted = 1 /\ sys_call_table[s] = interceptor_fn
    /\ \E p \in Pids :
          /\ pc[p] = "done"
          /\ arg[p].cmd = REQUEST_SYSCALL_RELEASE
          /\ ret[p] = 0
          /\ table[arg[p].syscall].intercepted = 0
          /\ sys_call_table[arg[p].syscall] = table[arg[p].syscall].f

====
